---- MODULE Spec2Model ----
(***************************************************************************)
(* Agon legacy firmware update utility (src/src/main.c).                   *)
(* The model follows main() and update_mos() statement by statement: the   *)
(* pre-flight checks, the load of MOS.bin into RAM at BUFFER1, the CRC of  *)
(* the image, the y/n gate, and the erase / program / verify retry loop    *)
(* on the ez80 internal flash.                                             *)
(*                                                                         *)
(* The ez80 flash controller, fastmemcpy and the crc32 routines live in    *)
(* flash.h / crc32.h, whose sources are not part of src/; they are         *)
(* modelled from the written specification (sections 4.1 and 4.2).         *)
(* The flash geometry is scaled down (PAGESIZE, FLASHPAGES) so that the    *)
(* whole address space can be enumerated.                                  *)
(***************************************************************************)
EXTENDS Integers, Sequences, FiniteSets

(***************************************************************************)
(* Geometry (flash.h) and bounds                                           *)
(***************************************************************************)
\* bytes per flash page (scaled; 1024 on the device)
PAGESIZE ==
  4
\* pages in the flash region (scaled; 128 on the device)
FLASHPAGES ==
  3
\* first address of the flash region
FLASHSTART ==
  0
\* total capacity of the flash region
FLASHSIZE ==
  FLASHPAGES * PAGESIZE
\* how many bytes longer than the flash a file on the SD card may be
Oversize ==
  2
\* longest file on the SD card
MaxFileLen ==
  FLASHSIZE + Oversize
\* RAM address the image is loaded to (scaled; above the flash region)
BUFFER1 ==
  64
\* most status polls a single page erase can stay busy for
MaxPolls ==
  1
\* busy time of an erase whose busy bit the device never clears
StuckBusy ==
  MaxPolls + 1
\* number of erase/program/verify cycles update_mos tries
MaxAttempts ==
  3
MOS_MAGICLENGTH ==
  5
EXIT_FILENOTFOUND ==
  4
EXIT_INVALIDPARAMETER ==
  19
\* status returned after "Error reading from SD card"
READERROR_STATUS ==
  0
\* status returned when the user answers n
USERABORT_STATUS ==
  0
\* status returned at the end of main, reached when update_mos failed
FINAL_STATUS ==
  0
\* range of uint24_t
UINT24 ==
  16777216

Byte == 0..255
\* value of an erased flash cell
ERASED ==
  255

mos_magicnumbers == <<243, 237, 125, 91, 195>>

(***************************************************************************)
(* 32-bit arithmetic on pairs <<high 16 bits, low 16 bits>>                *)
(***************************************************************************)
RECURSIVE XorN(_, _, _)
\* bitwise exclusive or of two n-bit naturals
XorN(a, b, n) ==
  IF n = 0 THEN 0
  ELSE ((a + b) % 2) + 2 * XorN(a \div 2, b \div 2, n - 1)

\* exclusive or of two 4-bit values, tabulated
XorNibble == [a \in 0..15 |-> [b \in 0..15 |-> XorN(a, b, 4)]]

\* exclusive or of two bytes
Xor8(a, b) ==
  XorNibble[a % 16][b % 16] + 16 * XorNibble[a \div 16][b \div 16]

\* exclusive or of two 16-bit values
Xor16(a, b) ==
  Xor8(a % 256, b % 256) + 256 * Xor8(a \div 256, b \div 256)

Xor32(x, y) == <<Xor16(x[1], y[1]), Xor16(x[2], y[2])>>

\* logical shift right by one of a 32-bit word
Shr32(x) == <<x[1] \div 2, (x[2] \div 2) + 32768 * (x[1] % 2)>>

\* 0xEDB88320, the reflected CRC-32 polynomial
CRCPOLY == <<60856, 33568>>
\* 0xFFFFFFFF
ALLONES == <<65535, 65535>>

RECURSIVE CrcBits(_, _)
\* k shift/xor steps of the reflected CRC
CrcBits(c, k) ==
  IF k = 0 THEN c
  ELSE IF c[2] % 2 = 1
       THEN CrcBits(Xor32(Shr32(c), CRCPOLY), k - 1)
       ELSE CrcBits(Shr32(c), k - 1)

\* logical shift right by eight of a 32-bit word
Shr32by8(x) == <<x[1] \div 256, (x[2] \div 256) + 256 * (x[1] % 256)>>

\* the 256-entry lookup table of the table-driven CRC
CrcTable == [n \in 0..255 |-> CrcBits(<<0, n>>, 8)]

\* fold one byte into the accumulator
CrcByte(c, b) ==
  Xor32(CrcTable[Xor8(c[2] % 256, b)], Shr32by8(c))

\* crc32(ptr, len): fold mem[from .. from+len-1] into accumulator c
CrcRange(c, mem, from, len) ==
  LET acc[i \in 0..len] ==
        IF i = 0 THEN c
        ELSE CHOOSE r \in {CrcByte(prev, mem[from + i - 1]) : prev \in {acc[i - 1]}} : TRUE
  IN acc[len]

\* crc32_initialize(); crc32(ptr, len); crc32_finalize()
Crc32Of(mem, from, len) == Xor32(CrcRange(ALLONES, mem, from, len), ALLONES)

(***************************************************************************)
(* Inputs: the file on the SD card and the stale contents of RAM           *)
(***************************************************************************)
\* a header that differs from the entry signature in its last byte
BadHeader == <<243, 237, 125, 91, 0>>

\* body byte at (1-based) position i of a file with the given pattern
BodyByte(pattern, i) ==
  IF pattern = "ones" THEN ERASED ELSE (17 * i) % 256

\* a file of len bytes: a header followed by a body pattern
FileOf(len, hdr, pattern) ==
  [i \in 1..len |-> IF i <= MOS_MAGICLENGTH THEN hdr[i] ELSE BodyByte(pattern, i)]

Files ==
  {FileOf(len, hdr, pattern) :
     len \in 0..MaxFileLen, hdr \in {mos_magicnumbers, BadHeader},
     pattern \in {"ones", "ramp"}}

RamAddrs == BUFFER1 .. (BUFFER1 + MaxFileLen - 1)
FlashAddrs == FLASHSTART .. (FLASHSTART + FLASHSIZE - 1)

\* RAM before the program has loaded anything: whatever an earlier program left
StaleRam(hdr) ==
  [a \in RamAddrs |->
     IF a - BUFFER1 < MOS_MAGICLENGTH THEN hdr[a - BUFFER1 + 1] ELSE 0]

VARIABLES
  pc,            \* position in main / update_mos
  fileExists,    \* MOS.bin can be opened
  fileData,      \* contents of MOS.bin
  ram,           \* RAM at BUFFER1
  filesize,      \* global filesize
  moscrc,        \* global moscrc
  intEnabled,    \* CPU interrupt mask (TRUE = interrupts enabled)
  flash,         \* contents of the flash region
  flashProt,     \* FLASH_PROT register
  flashFdiv,     \* FLASH_FDIV register
  flashPage,     \* FLASH_PAGE register
  keyUnlocked,   \* flash key register accepts one protected write
  busyLeft,      \* status polls for which the running erase stays busy
  faulty,        \* the device corrupts the programming pass of this attempt
  attempt, success, counter, pagemax, lastpagebytes,
  addressto, addressfrom, crcresult,   \* locals of update_mos
  response,      \* last key read by getResponse
  rc,            \* status main returned
  outcome,       \* which exit of main was taken
  cycles,        \* erase/program/verify cycles started
  mismatches,    \* checksum mismatches observed
  hwAccess,      \* flash controller accesses and page writes so far
  intOnAccess,   \* some flash access happened with interrupts enabled
  lockedWrite,   \* some protection register write was issued while locked
  oobWrite,      \* some page write went outside the flash region
  faultSeen,     \* the device corrupted some programming pass
  keyOp,         \* last call on the flash key register: none, unlock or lock
  uartStuck,     \* the CPU is in putch, polling a UART that never gets ready
  erasedPages,   \* pages erased in the current attempt
  writeLog       \* page writes of the current attempt: <<to, from, length>>

hwVars == <<flash, flashProt, flashFdiv, flashPage, keyUnlocked, busyLeft>>
localVars == <<attempt, success, counter, pagemax, lastpagebytes,
               addressto, addressfrom, crcresult>>
fileVars == <<fileExists, fileData>>
ghostVars == <<cycles, mismatches, hwAccess, intOnAccess, lockedWrite,
               oobWrite, faultSeen, keyOp, erasedPages, writeLog>>
vars == <<pc, uartStuck, fileVars, ram, filesize, moscrc, intEnabled, hwVars, faulty,
          localVars, response, rc, outcome, ghostVars>>

Init ==
  /\ pc = "filesExist"
  /\ fileExists \in BOOLEAN
  /\ fileData \in (IF fileExists THEN Files ELSE {<<>>})
  /\ ram \in {StaleRam(mos_magicnumbers), StaleRam(BadHeader)}
  /\ filesize = 0
  /\ moscrc = <<0, 0>>
  /\ intEnabled = TRUE
  /\ flash = [a \in FlashAddrs |-> 0]
  /\ flashProt = 255
  /\ flashFdiv = 1
  /\ flashPage = 0
  /\ keyUnlocked = FALSE
  /\ busyLeft = 0
  /\ faulty = FALSE
  /\ attempt = 0 /\ success = FALSE /\ counter = 0 /\ pagemax = 0
  /\ lastpagebytes = 0 /\ addressto = 0 /\ addressfrom = 0
  /\ crcresult = <<0, 0>>
  /\ response = "none"
  /\ rc = -1
  /\ outcome = "running"
  /\ cycles = 0 /\ mismatches = 0 /\ hwAccess = 0
  /\ intOnAccess = FALSE /\ lockedWrite = FALSE /\ oobWrite = FALSE
  /\ faultSeen = FALSE /\ keyOp = "none" /\ erasedPages = {} /\ writeLog = <<>>
  /\ uartStuck = FALSE

(***************************************************************************)
(* Pure parts of the code                                                  *)
(***************************************************************************)
\* containsMosHeader((uint8_t *)BUFFER1)
containsMosHeader(mem) ==
  \A n \in 0..(MOS_MAGICLENGTH - 1) : mos_magicnumbers[n + 1] = mem[BUFFER1 + n]

\* validFirmware(): header present in RAM and the global filesize fits the flash
validFirmware(mem, fs) ==
  containsMosHeader(mem) /\ ~(fs > FLASHSIZE)

\* variant of getResponseResult: any terminating key counts as consent
getResponseAnyKey(r) ==
  r \in {"y", "n"}

\* getResponse(): return response == 'y'
getResponseResult(r) ==
  r = "y"

\* variant of LoopCond: the loop ignores a successful verification
LoopCondCountOnly(s, a) ==
  a < MaxAttempts

\* condition of the retry loop
LoopCond(s, a) ==
  (~s) /\ a < MaxAttempts

\* variant of PageMax: a partial last page is not counted
PageMaxFloor(fs) ==
  fs \div PAGESIZE

\* number of pages to write
PageMax(fs) ==
  IF fs % PAGESIZE # 0 THEN (fs \div PAGESIZE) + 1 ELSE fs \div PAGESIZE

\* variant of LastPageBytes: the last page is always written in full
LastPageBytesFull(fs) ==
  PAGESIZE

\* bytes in the last page
LastPageBytes(fs) ==
  IF fs % PAGESIZE # 0 THEN fs % PAGESIZE ELSE PAGESIZE

\* length handed to fastmemcpy for page c
PageLen(c, pm, lpb) ==
  IF c = pm - 1 THEN lpb ELSE PAGESIZE

RECURSIVE LoadedRam(_, _, _)
\* readMemory(): the first n bytes of the file stored from BUFFER1 onwards
LoadedRam(mem, data, n) ==
  IF n = 0 THEN mem
  ELSE [LoadedRam(mem, data, n - 1) EXCEPT ![BUFFER1 + n - 1] = data[n]]

\* what the device stores for byte k of a page write to address `to`
StoredByte(mem, to, from, k, bad) ==
  IF bad /\ to = FLASHSTART /\ k = 0
  THEN (mem[from] + 1) % 256
  ELSE mem[from + k]

RECURSIVE PageWritten(_, _, _, _, _, _, _)
\* fastmemcpy(to, from, len) into flash: bytes 0 .. len-1, one at a time; a
\* protected device ignores the write and cells outside the region are not flash
PageWritten(fl, prot, mem, to, from, len, bad) ==
  IF len = 0 THEN fl
  ELSE LET rest == PageWritten(fl, prot, mem, to, from, len - 1, bad)
           a == to + len - 1
       IN IF prot = 0 /\ a \in FlashAddrs
          THEN [rest EXCEPT ![a] = StoredByte(mem, to, from, len - 1, bad)]
          ELSE rest

RECURSIVE CellsErased(_, _, _)
\* the first n cells from address `base` read back erased
CellsErased(fl, base, n) ==
  IF n = 0 THEN fl
  ELSE [CellsErased(fl, base, n - 1) EXCEPT ![base + n - 1] = ERASED]

\* page erase: every cell of the page reads back erased, unless protected
PageErased(fl, prot, page) ==
  IF prot = 0 /\ page < FLASHPAGES
  THEN CellsErased(fl, FLASHSTART + page * PAGESIZE, PAGESIZE)
  ELSE fl

\* a flash controller access or page write, as seen by the interrupt mask
Access ==
  /\ hwAccess' = hwAccess + 1
  /\ intOnAccess' = (intOnAccess \/ intEnabled)

(***************************************************************************)
(* main(), up to the call of update_mos                                    *)
(***************************************************************************)
\* variant of MainFilesExist: interrupts are masked before the checks run
MainFilesExistMasked ==
  /\ pc = "filesExist"
  /\ ~uartStuck
  /\ intEnabled' = FALSE
  /\ IF fileExists
     THEN pc' = "validFirmware" /\ UNCHANGED <<rc, outcome>>
     ELSE pc' = "exit" /\ rc' = EXIT_FILENOTFOUND /\ outcome' = "ImageNotFound"
  /\ UNCHANGED <<uartStuck, fileVars, ram, filesize, moscrc, hwVars, faulty,
                 localVars, response, ghostVars>>

\* if(!filesExist()) return EXIT_FILENOTFOUND;
MainFilesExist ==
  /\ pc = "filesExist"
  /\ ~uartStuck
  /\ IF fileExists
     THEN pc' = "validFirmware" /\ UNCHANGED <<rc, outcome>>
     ELSE pc' = "exit" /\ rc' = EXIT_FILENOTFOUND /\ outcome' = "ImageNotFound"
  /\ UNCHANGED <<uartStuck, fileVars, ram, filesize, moscrc, intEnabled, hwVars,
                 faulty,
                 localVars, response, ghostVars>>

\* if(!validFirmware()) return EXIT_INVALIDPARAMETER;
MainValidFirmware ==
  /\ pc = "validFirmware"
  /\ ~uartStuck
  /\ IF validFirmware(ram, filesize)
     THEN pc' = "readMemory" /\ UNCHANGED <<rc, outcome>>
     ELSE pc' = "exit" /\ rc' = EXIT_INVALIDPARAMETER /\ outcome' = "InvalidImage"
  /\ UNCHANGED <<uartStuck, fileVars, ram, filesize, moscrc, intEnabled, hwVars,
                 faulty,
                 localVars, response, ghostVars>>

\* filesize = readMemory(mosfilename); if(filesize == 0) return 0;
MainReadMemory ==
  /\ pc = "readMemory"
  /\ ~uartStuck
  /\ ram' = LoadedRam(ram, fileData, Len(fileData))
  /\ filesize' = Len(fileData) % UINT24
  /\ IF filesize' = 0
     THEN pc' = "exit" /\ rc' = READERROR_STATUS /\ outcome' = "ReadError"
     ELSE pc' = "calculateCRC32" /\ UNCHANGED <<rc, outcome>>
  /\ UNCHANGED <<uartStuck, fileVars, moscrc, intEnabled, hwVars, faulty,
                 localVars, response, ghostVars>>

\* calculateCRC32(); showCRC32();
MainCalculateCRC32 ==
  /\ pc = "calculateCRC32"
  /\ ~uartStuck
  /\ moscrc' = Crc32Of(ram, BUFFER1, filesize)
  /\ pc' = "getResponse"
  /\ UNCHANGED <<uartStuck, fileVars, ram, filesize, intEnabled, hwVars, faulty,
                 localVars, response, rc, outcome, ghostVars>>

\* if(!getResponse()) return 0;   (keys other than y/n are read and ignored)
MainGetResponse ==
  /\ pc = "getResponse"
  /\ ~uartStuck
  /\ \E key \in {"y", "n", "other"} :
       /\ response' = key
       /\ IF key = "other"
          THEN pc' = pc /\ UNCHANGED <<rc, outcome>>
          ELSE IF getResponseResult(key)
               THEN pc' = "di" /\ UNCHANGED <<rc, outcome>>
               ELSE pc' = "exit" /\ rc' = USERABORT_STATUS /\ outcome' = "UserAbort"
  /\ UNCHANGED <<uartStuck, fileVars, ram, filesize, moscrc, intEnabled, hwVars,
                 faulty,
                 localVars, ghostVars>>

(***************************************************************************)
(* update_mos()                                                            *)
(***************************************************************************)
\* variant of UpdateDi: the interrupt mask is left as it was
UpdateDiUnmasked ==
  /\ pc = "di"
  /\ ~uartStuck
  /\ attempt' = 0
  /\ success' = FALSE
  /\ pc' = "loop"
  /\ UNCHANGED <<uartStuck, fileVars, ram, filesize, moscrc, intEnabled, hwVars,
                 faulty,
                 counter, pagemax, lastpagebytes, addressto, addressfrom,
                 crcresult, response, rc, outcome, ghostVars>>

\* di(); attempt = 0;   (success was initialised to false)
UpdateDi ==
  /\ pc = "di"
  /\ ~uartStuck
  /\ intEnabled' = FALSE
  /\ attempt' = 0
  /\ success' = FALSE
  /\ pc' = "loop"
  /\ UNCHANGED <<uartStuck, fileVars, ram, filesize, moscrc, hwVars, faulty,
                 counter, pagemax, lastpagebytes, addressto, addressfrom,
                 crcresult, response, rc, outcome, ghostVars>>

\* variant of UpdateLoop: interrupts are enabled again when the loop ends
UpdateLoopThenEi ==
  /\ pc = "loop"
  /\ ~uartStuck
  /\ IF LoopCond(success, attempt)
     THEN /\ addressto' = FLASHSTART
          /\ addressfrom' = BUFFER1
          /\ faulty' \in BOOLEAN
          /\ faultSeen' = (faultSeen \/ faulty')
          /\ cycles' = cycles + 1
          /\ erasedPages' = {}
          /\ writeLog' = <<>>
          /\ pc' = "unlockProt"
          /\ UNCHANGED intEnabled
     ELSE /\ pc' = "mosReturned"
          /\ intEnabled' = TRUE
          /\ UNCHANGED <<addressto, addressfrom, faulty, faultSeen, cycles,
                         erasedPages, writeLog>>
  /\ UNCHANGED <<uartStuck, keyOp, fileVars, ram, filesize, moscrc, hwVars,
                 attempt, success, counter, pagemax, lastpagebytes, crcresult,
                 response, rc, outcome, mismatches, hwAccess, intOnAccess,
                 lockedWrite, oobWrite>>

\* variant of UpdateLoop: the addresses are set before the first attempt only
UpdateLoopNoReset ==
  /\ pc = "loop"
  /\ ~uartStuck
  /\ IF LoopCond(success, attempt)
     THEN /\ addressto' = (IF attempt = 0 THEN FLASHSTART ELSE addressto)
          /\ addressfrom' = (IF attempt = 0 THEN BUFFER1 ELSE addressfrom)
          /\ faulty' \in BOOLEAN
          /\ faultSeen' = (faultSeen \/ faulty')
          /\ cycles' = cycles + 1
          /\ erasedPages' = {}
          /\ writeLog' = <<>>
          /\ pc' = "unlockProt"
     ELSE /\ pc' = "mosReturned"
          /\ UNCHANGED <<addressto, addressfrom, faulty, faultSeen, cycles,
                         erasedPages, writeLog>>
  /\ UNCHANGED <<uartStuck, keyOp, fileVars, ram, filesize, moscrc, intEnabled,
                 hwVars,
                 attempt, success, counter, pagemax, lastpagebytes, crcresult,
                 response, rc, outcome, mismatches, hwAccess, intOnAccess,
                 lockedWrite, oobWrite>>

\* while((!success) && (attempt < 3)) { addressto = FLASHSTART; addressfrom = BUFFER1;
\* The device decides here whether it will corrupt this programming pass.
UpdateLoop ==
  /\ pc = "loop"
  /\ ~uartStuck
  /\ IF LoopCond(success, attempt)
     THEN /\ addressto' = FLASHSTART
          /\ addressfrom' = BUFFER1
          /\ faulty' \in BOOLEAN
          /\ faultSeen' = (faultSeen \/ faulty')
          /\ cycles' = cycles + 1
          /\ erasedPages' = {}
          /\ writeLog' = <<>>
          /\ pc' = "unlockProt"
     ELSE /\ pc' = "mosReturned"
          /\ UNCHANGED <<addressto, addressfrom, faulty, faultSeen, cycles,
                         erasedPages, writeLog>>
  /\ UNCHANGED <<uartStuck, keyOp, fileVars, ram, filesize, moscrc, intEnabled,
                 hwVars,
                 attempt, success, counter, pagemax, lastpagebytes, crcresult,
                 response, rc, outcome, mismatches, hwAccess, intOnAccess,
                 lockedWrite, oobWrite>>

\* enableFlashKeyRegister();
UpdateUnlockProt ==
  /\ pc = "unlockProt"
  /\ ~uartStuck
  /\ keyUnlocked' = TRUE
  /\ keyOp' = "unlock"
  /\ Access
  /\ pc' = "writeProt"
  /\ UNCHANGED <<uartStuck, fileVars, ram, filesize, moscrc, intEnabled, flash,
                 flashProt,
                 flashFdiv, flashPage, busyLeft, faulty, localVars, response,
                 rc, outcome, cycles, mismatches, lockedWrite, oobWrite,
                 faultSeen, erasedPages, writeLog>>

\* FLASH_PROT = 0;   (takes effect only while unlocked; the write re-locks)
UpdateWriteProt ==
  /\ pc = "writeProt"
  /\ ~uartStuck
  /\ flashProt' = (IF keyUnlocked THEN 0 ELSE flashProt)
  /\ lockedWrite' = (lockedWrite \/ ~keyUnlocked)
  /\ keyUnlocked' = FALSE
  /\ Access
  /\ pc' = "unlockFdiv"
  /\ UNCHANGED <<uartStuck, keyOp, fileVars, ram, filesize, moscrc, intEnabled,
                 flash,
                 flashFdiv, flashPage, busyLeft, faulty, localVars, response,
                 rc, outcome, cycles, mismatches, oobWrite,
                 faultSeen, erasedPages, writeLog>>

\* variant of UpdateUnlockFdiv: the second unlock is left out
UpdateUnlockFdivSkipped ==
  /\ pc = "unlockFdiv"
  /\ ~uartStuck
  /\ UNCHANGED <<keyUnlocked, keyOp, hwAccess, intOnAccess>>
  /\ pc' = "writeFdiv"
  /\ UNCHANGED <<uartStuck, fileVars, ram, filesize, moscrc, intEnabled, flash,
                 flashProt,
                 flashFdiv, flashPage, busyLeft, faulty, localVars, response,
                 rc, outcome, cycles, mismatches, lockedWrite, oobWrite,
                 faultSeen, erasedPages, writeLog>>

\* enableFlashKeyRegister();
UpdateUnlockFdiv ==
  /\ pc = "unlockFdiv"
  /\ ~uartStuck
  /\ keyUnlocked' = TRUE
  /\ keyOp' = "unlock"
  /\ Access
  /\ pc' = "writeFdiv"
  /\ UNCHANGED <<uartStuck, fileVars, ram, filesize, moscrc, intEnabled, flash,
                 flashProt,
                 flashFdiv, flashPage, busyLeft, faulty, localVars, response,
                 rc, outcome, cycles, mismatches, lockedWrite, oobWrite,
                 faultSeen, erasedPages, writeLog>>

\* FLASH_FDIV = 0x5F;  for(counter = 0; ...
UpdateWriteFdiv ==
  /\ pc = "writeFdiv"
  /\ ~uartStuck
  /\ flashFdiv' = (IF keyUnlocked THEN 95 ELSE flashFdiv)
  /\ lockedWrite' = (lockedWrite \/ ~keyUnlocked)
  /\ keyUnlocked' = FALSE
  /\ Access
  /\ counter' = 0
  /\ pc' = "eraseStart"
  /\ UNCHANGED <<uartStuck, keyOp, fileVars, ram, filesize, moscrc, intEnabled, flash,
                 flashProt,
                 flashPage, busyLeft, faulty, attempt, success, pagemax,
                 lastpagebytes, addressto, addressfrom, crcresult, response,
                 rc, outcome, cycles, mismatches, oobWrite,
                 faultSeen, erasedPages, writeLog>>

\* variant of UpdateEraseStart: only the pages the image covers are erased
UpdateEraseStartImageOnly ==
  /\ pc = "eraseStart"
  /\ ~uartStuck
  /\ IF counter < PageMax(filesize)
     THEN /\ flashPage' = counter
          /\ busyLeft' \in 0..StuckBusy
          /\ Access
          /\ pc' = "erasePoll"
     ELSE /\ pc' = "pageCalc"
          /\ UNCHANGED <<flashPage, busyLeft, hwAccess, intOnAccess>>
  /\ UNCHANGED <<uartStuck, keyOp, fileVars, ram, filesize, moscrc, intEnabled, flash,
                 flashProt,
                 flashFdiv, keyUnlocked, faulty, localVars, response,
                 rc, outcome, cycles, mismatches, lockedWrite, oobWrite,
                 faultSeen, erasedPages, writeLog>>

\* counter < FLASHPAGES ?  FLASH_PAGE = counter; FLASH_PGCTL = 0x02;
UpdateEraseStart ==
  /\ pc = "eraseStart"
  /\ ~uartStuck
  /\ IF counter < FLASHPAGES
     THEN /\ flashPage' = counter
          /\ busyLeft' \in 0..StuckBusy
          /\ Access
          /\ pc' = "erasePoll"
     ELSE /\ pc' = "pageCalc"
          /\ UNCHANGED <<flashPage, busyLeft, hwAccess, intOnAccess>>
  /\ UNCHANGED <<uartStuck, keyOp, fileVars, ram, filesize, moscrc, intEnabled, flash,
                 flashProt,
                 flashFdiv, keyUnlocked, faulty, localVars, response,
                 rc, outcome, cycles, mismatches, lockedWrite, oobWrite,
                 faultSeen, erasedPages, writeLog>>

\* variant of UpdateErasePoll: the poll gives up on a device that stays busy
UpdateErasePollTimeout ==
  /\ pc = "erasePoll"
  /\ ~uartStuck
  /\ IF busyLeft > 0 /\ busyLeft # StuckBusy
     THEN /\ busyLeft' = busyLeft - 1
          /\ UNCHANGED <<pc, flash, counter, erasedPages>>
     ELSE /\ flash' = PageErased(flash, flashProt, flashPage)
          /\ erasedPages' = erasedPages \cup {flashPage}
          /\ counter' = counter + 1
          /\ pc' = "eraseStart"
          /\ UNCHANGED busyLeft
  /\ UNCHANGED <<uartStuck, keyOp, fileVars, ram, filesize, moscrc, intEnabled,
                 flashProt,
                 flashFdiv, flashPage, keyUnlocked, faulty, attempt, success,
                 pagemax, lastpagebytes, addressto, addressfrom, crcresult,
                 response, rc, outcome, cycles, mismatches, hwAccess,
                 intOnAccess, lockedWrite, oobWrite, faultSeen, writeLog>>

\* do { value = FLASH_PGCTL; } while(value & 0x02);  counter++
\* (a device that never clears the busy bit keeps the loop polling)
UpdateErasePoll ==
  /\ pc = "erasePoll"
  /\ ~uartStuck
  /\ IF busyLeft > 0
     THEN /\ busyLeft' = (IF busyLeft = StuckBusy THEN busyLeft ELSE busyLeft - 1)
          /\ UNCHANGED <<pc, flash, counter, erasedPages>>
     ELSE /\ flash' = PageErased(flash, flashProt, flashPage)
          /\ erasedPages' = erasedPages \cup {flashPage}
          /\ counter' = counter + 1
          /\ pc' = "eraseStart"
          /\ UNCHANGED busyLeft
  /\ UNCHANGED <<uartStuck, keyOp, fileVars, ram, filesize, moscrc, intEnabled,
                 flashProt,
                 flashFdiv, flashPage, keyUnlocked, faulty, attempt, success,
                 pagemax, lastpagebytes, addressto, addressfrom, crcresult,
                 response, rc, outcome, cycles, mismatches, hwAccess,
                 intOnAccess, lockedWrite, oobWrite, faultSeen, writeLog>>

\* pagemax = filesize/PAGESIZE; if(filesize%PAGESIZE) ...;  for(counter = 0; ...
UpdatePageCalc ==
  /\ pc = "pageCalc"
  /\ ~uartStuck
  /\ pagemax' = PageMax(filesize)
  /\ lastpagebytes' = LastPageBytes(filesize)
  /\ counter' = 0
  /\ pc' = "writePage"
  /\ UNCHANGED <<uartStuck, fileVars, ram, filesize, moscrc, intEnabled, hwVars,
                 faulty,
                 attempt, success, addressto, addressfrom, crcresult,
                 response, rc, outcome, ghostVars>>

\* counter < pagemax ?  fastmemcpy(addressto, addressfrom, len); addresses += PAGESIZE
UpdateWritePage ==
  /\ pc = "writePage"
  /\ ~uartStuck
  /\ IF counter < pagemax
     THEN LET len == PageLen(counter, pagemax, lastpagebytes) IN
          /\ flash' = PageWritten(flash, flashProt, ram, addressto, addressfrom,
                                  len, faulty)
          /\ writeLog' = Append(writeLog, <<addressto, addressfrom, len>>)
          /\ oobWrite' = (oobWrite \/ addressto + len > FLASHSTART + FLASHSIZE)
          /\ addressto' = (addressto + PAGESIZE) % UINT24
          /\ addressfrom' = (addressfrom + PAGESIZE) % UINT24
          /\ counter' = counter + 1
          /\ Access
          /\ UNCHANGED pc
     ELSE /\ pc' = "lock"
          /\ UNCHANGED <<flash, writeLog, oobWrite, addressto, addressfrom,
                         counter, hwAccess, intOnAccess>>
  /\ UNCHANGED <<uartStuck, keyOp, fileVars, ram, filesize, moscrc, intEnabled,
                 flashProt,
                 flashFdiv, flashPage, keyUnlocked, busyLeft, faulty, attempt,
                 success, pagemax, lastpagebytes, crcresult, response, rc,
                 outcome, cycles, mismatches, lockedWrite, faultSeen,
                 erasedPages>>

\* variant of UpdateLock: lockFlashKeyRegister is not called
UpdateLockSkipped ==
  /\ pc = "lock"
  /\ ~uartStuck
  /\ UNCHANGED <<keyUnlocked, keyOp, hwAccess, intOnAccess>>
  /\ pc' = "verify"
  /\ UNCHANGED <<uartStuck, fileVars, ram, filesize, moscrc, intEnabled, flash,
                 flashProt,
                 flashFdiv, flashPage, busyLeft, faulty, localVars, response,
                 rc, outcome, cycles, mismatches, lockedWrite, oobWrite,
                 faultSeen, erasedPages, writeLog>>

\* lockFlashKeyRegister();
UpdateLock ==
  /\ pc = "lock"
  /\ ~uartStuck
  /\ keyUnlocked' = FALSE
  /\ keyOp' = "lock"
  /\ Access
  /\ pc' = "verify"
  /\ UNCHANGED <<uartStuck, fileVars, ram, filesize, moscrc, intEnabled, flash,
                 flashProt,
                 flashFdiv, flashPage, busyLeft, faulty, localVars, response,
                 rc, outcome, cycles, mismatches, lockedWrite, oobWrite,
                 faultSeen, erasedPages, writeLog>>

\* addresses of a read of len bytes from FLASHSTART that lie past the flash region
PastFlash(len) ==
  (FLASHSTART + FLASHSIZE) .. (FLASHSTART + len - 1)

\* what the reads past the flash region may return: the cells are not flash,
\* so they read as an open bus (all 0xFF or all 0x00) or as the bytes last
\* written to them
PastFlashReads(mem, len) ==
  {[a \in PastFlash(len) |-> ERASED],
   [a \in PastFlash(len) |-> 0],
   [a \in PastFlash(len) |-> mem[BUFFER1 + (a - FLASHSTART)]]}

\* the bytes crc32 reads over [FLASHSTART, FLASHSTART + len): flash cells, then
\* the values t read past the region
ReadBack(fl, t, len) ==
  [a \in FLASHSTART .. (FLASHSTART + len - 1) |->
     IF a \in FlashAddrs THEN fl[a] ELSE t[a]]

\* crc32_initialize(); crc32(FLASHSTART, filesize); crc32_finalize(): the
\* checksum of the bytes read back, for every outcome of the reads past the flash
FlashCrcs(fl, mem, len) ==
  {Crc32Of(m, FLASHSTART, len) :
     m \in {ReadBack(fl, t, len) : t \in PastFlashReads(mem, len)}}

\* variant of UpdateVerify: the read-back checksum is stored in the global moscrc
UpdateVerifyClobbers ==
  /\ pc = "verify"
  /\ ~uartStuck
  /\ crcresult' \in FlashCrcs(flash, ram, filesize)
  /\ moscrc' = crcresult'
  /\ success' = (IF crcresult' = moscrc THEN TRUE ELSE success)
  /\ mismatches' = (IF crcresult' = moscrc THEN mismatches ELSE mismatches + 1)
  /\ attempt' = attempt + 1
  /\ pc' = "loop"
  /\ UNCHANGED <<uartStuck, keyOp, fileVars, ram, filesize, intEnabled, hwVars,
                 faulty,
                 counter, pagemax, lastpagebytes, addressto, addressfrom,
                 response, rc, outcome, cycles, hwAccess, intOnAccess,
                 lockedWrite, oobWrite, faultSeen, erasedPages, writeLog>>

\* variant of UpdateVerify: attempt is incremented on a mismatch only
UpdateVerifyCountsMismatches ==
  /\ pc = "verify"
  /\ ~uartStuck
  /\ crcresult' \in FlashCrcs(flash, ram, filesize)
  /\ success' = (IF crcresult' = moscrc THEN TRUE ELSE success)
  /\ mismatches' = (IF crcresult' = moscrc THEN mismatches ELSE mismatches + 1)
  /\ attempt' = (IF crcresult' = moscrc THEN attempt ELSE attempt + 1)
  /\ pc' = "loop"
  /\ UNCHANGED <<uartStuck, keyOp, fileVars, ram, filesize, moscrc, intEnabled, hwVars,
                 faulty,
                 counter, pagemax, lastpagebytes, addressto, addressfrom,
                 response, rc, outcome, cycles, hwAccess, intOnAccess,
                 lockedWrite, oobWrite, faultSeen, erasedPages, writeLog>>

\* crc32(FLASHSTART, filesize); if(crcresult == moscrc) success = true; attempt++;
UpdateVerify ==
  /\ pc = "verify"
  /\ ~uartStuck
  /\ crcresult' \in FlashCrcs(flash, ram, filesize)
  /\ success' = (IF crcresult' = moscrc THEN TRUE ELSE success)
  /\ mismatches' = (IF crcresult' = moscrc THEN mismatches ELSE mismatches + 1)
  /\ attempt' = attempt + 1
  /\ pc' = "loop"
  /\ UNCHANGED <<uartStuck, keyOp, fileVars, ram, filesize, moscrc, intEnabled, hwVars,
                 faulty,
                 counter, pagemax, lastpagebytes, addressto, addressfrom,
                 response, rc, outcome, cycles, hwAccess, intOnAccess,
                 lockedWrite, oobWrite, faultSeen, erasedPages, writeLog>>

\* if(update_mos()) { ...; while(1); }  return 0;
MainAfterUpdate ==
  /\ pc = "mosReturned"
  /\ ~uartStuck
  /\ IF success
     THEN pc' = "halt" /\ outcome' = "Success" /\ UNCHANGED rc
     ELSE pc' = "exit" /\ outcome' = "VerificationFailure" /\ rc' = FINAL_STATUS
  /\ UNCHANGED <<uartStuck, fileVars, ram, filesize, moscrc, intEnabled, hwVars,
                 faulty,
                 localVars, response, ghostVars>>

\* readMemory prints a progress dot after every 2048 bytes, two pages (scaled)
ProgressEvery == 2 * PAGESIZE

\* the step at the current position starts with a printf or putch, before it
\* assigns anything
Printing ==
  \/ pc = "filesExist" /\ ~fileExists
  \/ pc = "validFirmware" /\ ~validFirmware(ram, filesize)
  \/ pc \in {"readMemory", "calculateCRC32", "di", "verify"}
  \/ pc = "getResponse" /\ response = "none"
  \/ pc = "loop" /\ ~LoopCond(success, attempt)
  \/ pc = "eraseStart" /\ ~(counter < FLASHPAGES)
  \/ pc = "writePage" /\ counter < pagemax
  \/ pc = "mosReturned" /\ success

\* putch: while((UART0_LSR & 0x40) == 0);  with a transmitter that never gets
\* empty the wait has no end: the CPU stays in the step that prints
PutchStuck ==
  /\ Printing
  /\ ~uartStuck
  /\ uartStuck' = TRUE
  /\ UNCHANGED <<pc, fileVars, ram, filesize, moscrc, intEnabled, hwVars, faulty,
                 localVars, response, rc, outcome, ghostVars>>

\* readMemory: if(size%2048 == 0) printf(".");  putch never returns from a
\* progress dot: n bytes are in RAM and the global filesize is not yet assigned
PutchStuckReadMemory ==
  /\ pc = "readMemory"
  /\ ~uartStuck
  /\ \E n \in 1..Len(fileData) :
       /\ n % ProgressEvery = 0
       /\ ram' = LoadedRam(ram, fileData, n)
  /\ uartStuck' = TRUE
  /\ UNCHANGED <<pc, fileVars, filesize, moscrc, intEnabled, hwVars, faulty,
                 localVars, response, rc, outcome, ghostVars>>

\* calculateCRC32: moscrc = crc32_finalize(); printf("\r\n\r\n"); showCRC32();
\* putch never returns from a print that follows the assignment of moscrc
PutchStuckCalculateCRC32 ==
  /\ pc = "calculateCRC32"
  /\ ~uartStuck
  /\ moscrc' = Crc32Of(ram, BUFFER1, filesize)
  /\ uartStuck' = TRUE
  /\ UNCHANGED <<pc, fileVars, ram, filesize, intEnabled, hwVars, faulty,
                 localVars, response, rc, outcome, ghostVars>>

\* getResponse: a y or n key has been read; putch never returns from the
\* printf that follows it ("User abort" or the blank line)
PutchStuckGetResponse ==
  /\ pc = "getResponse"
  /\ ~uartStuck
  /\ response' \in {"y", "n"}
  /\ uartStuck' = TRUE
  /\ UNCHANGED <<pc, fileVars, ram, filesize, moscrc, intEnabled, hwVars, faulty,
                 localVars, rc, outcome, ghostVars>>

\* update_mos: addressto = FLASHSTART; addressfrom = BUFFER1; then putch never
\* returns from printf("Retry attempt") or printf("Erasing flash... ")
PutchStuckLoop ==
  /\ pc = "loop"
  /\ ~uartStuck
  /\ LoopCond(success, attempt)
  /\ addressto' = FLASHSTART
  /\ addressfrom' = BUFFER1
  /\ uartStuck' = TRUE
  /\ UNCHANGED <<pc, fileVars, ram, filesize, moscrc, intEnabled, hwVars, faulty,
                 attempt, success, counter, pagemax, lastpagebytes, crcresult,
                 response, rc, outcome, ghostVars>>

\* update_mos: crcresult = crc32_finalize(); then putch never returns from
\* printf("OK") or printf("ERROR"): success and attempt are not yet assigned
PutchStuckVerify ==
  /\ pc = "verify"
  /\ ~uartStuck
  /\ crcresult' \in FlashCrcs(flash, ram, filesize)
  /\ uartStuck' = TRUE
  /\ UNCHANGED <<pc, fileVars, ram, filesize, moscrc, intEnabled, hwVars, faulty,
                 attempt, success, counter, pagemax, lastpagebytes, addressto,
                 addressfrom, response, rc, outcome, ghostVars>>

Next ==
  \/ MainFilesExist
  \/ MainValidFirmware
  \/ MainReadMemory
  \/ MainCalculateCRC32
  \/ MainGetResponse
  \/ UpdateDi
  \/ UpdateLoop
  \/ UpdateUnlockProt
  \/ UpdateWriteProt
  \/ UpdateUnlockFdiv
  \/ UpdateWriteFdiv
  \/ UpdateEraseStart
  \/ UpdateErasePoll
  \/ UpdatePageCalc
  \/ UpdateWritePage
  \/ UpdateLock
  \/ UpdateVerify
  \/ MainAfterUpdate
  \/ PutchStuck
  \/ PutchStuckReadMemory
  \/ PutchStuckCalculateCRC32
  \/ PutchStuckGetResponse
  \/ PutchStuckLoop
  \/ PutchStuckVerify

Spec == Init /\ [][Next]_vars

\* the CPU keeps executing: a statement that can run eventually does; the two
\* waits of update_mos that may never end (erase busy bit, UART transmitter)
\* are states of their own, in which no further statement can run
LiveSpec == Spec /\ WF_vars(Next)

TypeOK ==
  /\ uartStuck \in BOOLEAN
  /\ filesize \in 0..MaxFileLen
  /\ attempt \in 0..MaxAttempts
  /\ \A a \in FlashAddrs : flash[a] \in Byte
  /\ \A a \in RamAddrs : ram[a] \in Byte

(***************************************************************************)
(* Vocabulary of the properties                                            *)
(***************************************************************************)
\* positions inside update_mos, from the start of an attempt to its verification
UpdatePcs ==
  {"loop", "unlockProt", "writeProt", "unlockFdiv", "writeFdiv", "eraseStart",
   "erasePoll", "pageCalc", "writePage", "lock", "verify"}

\* main has loaded MOS.bin into RAM
ImageLoaded ==
  pc \notin {"filesExist", "validFirmware", "readMemory"}

\* update_mos has returned to main
Returned ==
  pc = "mosReturned" \/ outcome \in {"Success", "VerificationFailure"}

\* the flash and its registers are as they were when the program started
FlashUntouched ==
  /\ hwAccess = 0
  /\ flash = [a \in FlashAddrs |-> 0]
  /\ flashProt = 255
  /\ flashFdiv = 1

\* sum of the lengths of the first n logged page writes
LoggedBytes(log, n) ==
  LET sum[i \in 0..n] == IF i = 0 THEN 0 ELSE sum[i - 1] + log[i][3]
  IN sum[n]

(***************************************************************************)
(* Properties                                                              *)
(***************************************************************************)

\* C1: if the image loaded for flashing lacks the entry signature or is
\* larger than the flash, the run is aborted as image-invalid: update_mos is
\* never entered and the flash hardware is never touched.
C1_InvalidImageRejected ==
  (ImageLoaded /\ filesize > 0
     /\ (~containsMosHeader(ram) \/ filesize > FLASHSIZE))
  => /\ hwAccess = 0
     /\ pc \notin UpdatePcs \cup {"di", "mosReturned", "halt"}
     /\ outcome \notin {"Success", "VerificationFailure"}

\* C2: update_mos runs at most 3 cycles; when verification first matches on
\* attempt k it has run exactly k cycles and returns success, and when all 3
\* attempts mismatch it has run exactly 3 cycles and returns failure.
C2_CyclesMatchFirstSuccess ==
  /\ cycles <= 3
  /\ Returned =>
       IF success
       THEN cycles = mismatches + 1 /\ cycles \in 1..3
       ELSE cycles = 3 /\ mismatches = 3

C2_Witness ==
  pc = "halt" /\ success /\ cycles = 2 /\ mismatches = 1

\* C3: from the first erase to the end of the last lock, in every attempt and
\* for both outcomes, interrupts are disabled; no flash access is ever made
\* with interrupts enabled.
C3_InterruptsMaskedWhileFlashing ==
  /\ ~intOnAccess
  /\ (cycles > 0 /\ pc \in UpdatePcs) => ~intEnabled

C3_Witness ==
  pc = "verify" /\ attempt = 2 /\ hwAccess > 0 /\ ~intEnabled

\* C4 as stated: when update_mos has returned, with success or after the third
\* mismatch, interrupts are enabled again.
C4_InterruptsReenabled ==
  Returned => intEnabled

\* C4 amended: update_mos never re-enables interrupts; when it has returned,
\* with success or after the third mismatch, interrupts are still disabled.
C4_InterruptsStayMasked ==
  Returned => ~intEnabled

C4_Witness ==
  outcome = "VerificationFailure" /\ mismatches = 3 /\ ~intEnabled

\* C5: with a device that stores what is written and an image of size in
\* (0, FLASHSIZE], the first programming pass leaves the flash equal to the
\* image over its length, the flash checksum equals moscrc and update_mos
\* succeeds on the first attempt.
C5_RoundTrip ==
  (filesize > 0 /\ filesize <= FLASHSIZE /\ cycles >= 1 /\ ~faultSeen) =>
     /\ (pc \in {"lock", "verify"} \/ attempt >= 1) =>
          \A k \in 0..(filesize - 1) : flash[FLASHSTART + k] = ram[BUFFER1 + k]
     /\ attempt >= 1 =>
          crcresult = moscrc /\ success /\ attempt = 1 /\ cycles = 1

C5_Witness ==
  /\ pc = "halt" /\ ~faultSeen /\ cycles = 1 /\ crcresult = moscrc
  /\ filesize % PAGESIZE # 0
  /\ \E k \in 0..(filesize - 1) : ram[BUFFER1 + k] \notin {0, ERASED}

\* C6: for an image of size in (0, FLASHSIZE] an attempt writes
\* ceil(size / PAGESIZE) pages, the last with size mod PAGESIZE bytes (a full
\* page when that is zero), the others with PAGESIZE bytes, size bytes in all.
C6_PageArithmetic ==
  (pc = "lock" /\ filesize > 0 /\ filesize <= FLASHSIZE) =>
     LET n == Len(writeLog) IN
     /\ n = (filesize + PAGESIZE - 1) \div PAGESIZE
     /\ pagemax = n
     /\ \A i \in 1..n :
          writeLog[i][3] =
            IF i < n THEN PAGESIZE
            ELSE IF filesize % PAGESIZE = 0 THEN PAGESIZE
                 ELSE filesize % PAGESIZE
     /\ LoggedBytes(writeLog, n) = filesize

C6_Witness ==
  /\ pc = "lock" /\ filesize <= FLASHSIZE
  /\ Len(writeLog) = 2 /\ writeLog[2][3] < PAGESIZE

\* C7: a run that ends with image-not-found, image-invalid or read-error has
\* not changed the flash or its registers and has never disabled interrupts.
C7_FailFastLeavesDeviceUntouched ==
  outcome \in {"ImageNotFound", "InvalidImage", "ReadError"} =>
     FlashUntouched /\ intEnabled /\ ~keyUnlocked /\ cycles = 0

C7_Witness ==
  outcome = "ReadError" /\ pc = "exit" /\ FlashUntouched

\* C8: each of the fail-fast errors (image-not-found, image-invalid,
\* read-error) makes main return a non-zero status.
C8_FailFastNonZeroStatus ==
  (pc = "exit" /\ outcome \in {"ImageNotFound", "InvalidImage", "ReadError"})
  => rc # 0

\* C9: the y/n gate is the only cancellation point and comes before di() and
\* the first erase: at the gate and after an answer of n, interrupts are
\* enabled and the flash is untouched; once the flash has been touched the run
\* is inside update_mos or has ended with Success or Failed. After n the run
\* has ended as a user abort, or it is still at the gate, in the putch of the
\* "User abort" message.
C9_SingleCancellationPoint ==
  /\ pc = "getResponse" => (intEnabled /\ FlashUntouched)
  /\ response = "n" =>
       /\ intEnabled /\ FlashUntouched
       /\ outcome = "UserAbort" \/ (pc = "getResponse" /\ uartStuck)
  /\ outcome = "UserAbort" => response = "n"
  /\ hwAccess > 0 => (pc \in UpdatePcs \/ Returned)

C9_Witness ==
  outcome = "UserAbort" /\ response = "n" /\ filesize > 0 /\ moscrc # <<0, 0>>

\* C10: after 3 mismatches the run ends Failed after exactly 3 cycles, and the
\* status handed to the caller differs from the one for a user abort and from
\* the one for a read error.
C10_FailureDistinctlyReported ==
  outcome = "VerificationFailure" =>
     /\ mismatches = 3 /\ cycles = 3 /\ ~success
     /\ rc # USERABORT_STATUS
     /\ rc # READERROR_STATUS

\* every page of the flash region
AllPages ==
  0..(FLASHPAGES - 1)

\* positions of an attempt after its erase loop has ended
AfterErasePcs ==
  {"pageCalc", "writePage", "lock", "verify"}

\* the CPU is polling an erase whose busy bit never clears
Stalled ==
  pc = "erasePoll" /\ busyLeft = StuckBusy

\* an attempt has been verified and the loop condition is about to be tested
AttemptDone ==
  pc = "loop" /\ attempt > 0

\* C11: with a key register that re-locks after one protected write, each
\* write to FLASH_PROT and FLASH_FDIV, in every attempt, directly follows its
\* own enableFlashKeyRegister call: no protected write is issued while locked,
\* and both writes take effect.
C11_EachProtectedWriteUnlocked ==
  /\ ~lockedWrite
  /\ pc \in {"writeProt", "writeFdiv"} => (keyUnlocked /\ keyOp = "unlock")
  /\ pc = "unlockFdiv" => (~keyUnlocked /\ flashProt = 0)
  /\ pc \in {"eraseStart", "erasePoll"} \cup AfterErasePcs =>
       (~keyUnlocked /\ flashProt = 0 /\ flashFdiv = 95)

C11_Witness ==
  pc = "eraseStart" /\ attempt = 2 /\ counter = 0 /\ flashFdiv = 95 /\ ~lockedWrite

\* C12: in every attempt, whatever the image size, all FLASHPAGES pages are
\* erased one after the other, each erase waited for, before the first page is
\* programmed; after the erase loop the whole region reads erased.
C12_FullEraseBeforeProgramming ==
  /\ pc = "eraseStart" => (erasedPages = 0..(counter - 1) /\ busyLeft = 0)
  /\ pc = "erasePoll" => (erasedPages = 0..(counter - 1) /\ flashPage = counter)
  /\ pc \in {"eraseStart", "erasePoll"} => writeLog = <<>>
  /\ pc \in AfterErasePcs => (erasedPages = AllPages /\ busyLeft = 0)
  /\ pc = "pageCalc" => \A a \in FlashAddrs : flash[a] = ERASED
  /\ (writeLog # <<>> \/ AttemptDone) => erasedPages = AllPages

C12_Witness ==
  /\ pc = "pageCalc" /\ attempt = 1 /\ filesize <= PAGESIZE + 1
  /\ erasedPages = AllPages

\* C13: within each attempt pages are programmed in ascending order from
\* index 0, page i from BUFFER1 + i*PAGESIZE to FLASHSTART + i*PAGESIZE; both
\* addresses start afresh in every attempt and advance by PAGESIZE after every
\* page, the short last page included.
C13_PagesInAscendingOrder ==
  /\ \A i \in 1..Len(writeLog) :
       /\ writeLog[i][1] = FLASHSTART + (i - 1) * PAGESIZE
       /\ writeLog[i][2] = BUFFER1 + (i - 1) * PAGESIZE
  /\ pc \in {"unlockProt", "writeProt", "unlockFdiv", "writeFdiv",
             "eraseStart", "erasePoll", "pageCalc"} =>
       (addressto = FLASHSTART /\ addressfrom = BUFFER1 /\ writeLog = <<>>)
  /\ pc \in {"writePage", "lock", "verify"} =>
       /\ Len(writeLog) = counter
       /\ addressto = FLASHSTART + counter * PAGESIZE
       /\ addressfrom = BUFFER1 + counter * PAGESIZE
  /\ pc \in {"lock", "verify"} => counter = pagemax

C13_Witness ==
  /\ pc = "lock" /\ attempt = 1 /\ Len(writeLog) >= 2
  /\ writeLog[Len(writeLog)][3] < PAGESIZE
  /\ addressto = FLASHSTART + Len(writeLog) * PAGESIZE

C15_LockedBeforeVerify ==
  /\ (pc = "verify" \/ AttemptDone \/ Returned) =>
       (~keyUnlocked /\ keyOp = "lock")
  /\ pc \in {"lock", "verify"} => Len(writeLog) = pagemax

C15_Witness ==
  outcome = "VerificationFailure" /\ keyOp = "lock" /\ ~keyUnlocked

\* C16: moscrc is the checksum of the filesize bytes of the image in RAM,
\* computed before di() and before any flash access; update_mos changes
\* neither moscrc, filesize nor the image; each verification compares the
\* checksum of [FLASHSTART, FLASHSTART + filesize) with that value.
C16_ExpectedChecksumFixed ==
  /\ pc \in {"calculateCRC32", "getResponse"} => (intEnabled /\ hwAccess = 0)
  /\ (pc \in UpdatePcs \cup {"getResponse", "di"} \/ Returned
        \/ outcome = "UserAbort") =>
       /\ filesize = Len(fileData)
       /\ \A k \in 0..(filesize - 1) : ram[BUFFER1 + k] = fileData[k + 1]
       /\ moscrc = Crc32Of(ram, BUFFER1, filesize)
  /\ (AttemptDone \/ Returned) =>
       /\ success = (crcresult = moscrc)
       /\ filesize <= FLASHSIZE => crcresult = Crc32Of(flash, FLASHSTART, filesize)

C16_Witness ==
  /\ pc = "loop" /\ attempt = 2 /\ ~success /\ filesize <= FLASHSIZE
  /\ crcresult # moscrc /\ moscrc = Crc32Of(ram, BUFFER1, filesize)

\* C17: whenever the orchestrator programs pages, filesize <= FLASHSIZE, so
\* pagemax <= FLASHPAGES and every page write lies inside the flash region.
C17_WritesInsideFlash ==
  /\ pc \in UpdatePcs => filesize <= FLASHSIZE
  /\ pc \in {"writePage", "lock", "verify"} => pagemax <= FLASHPAGES
  /\ ~oobWrite
  /\ \A i \in 1..Len(writeLog) :
       writeLog[i][1] + writeLog[i][3] <= FLASHSTART + FLASHSIZE

\* C18 as stated: the attempt counter equals the number of checksum
\* mismatches seen so far (it is not incremented on a match), within 0..3.
C18_AttemptCountsMismatches ==
  attempt \in 0..3 /\ attempt = mismatches

\* C18 amended: the attempt counter is incremented after every verification,
\* match or mismatch: it equals the number of completed cycles, that is the
\* number of mismatches plus one once a match has been seen, within 0..3.
C18_AttemptCountsCycles ==
  /\ attempt \in 0..3
  /\ attempt = mismatches + (IF success THEN 1 ELSE 0)
  /\ pc \in (UpdatePcs \ {"loop"}) => attempt = cycles - 1
  /\ (pc = "loop" \/ Returned) => attempt = cycles

C18_Witness ==
  pc = "halt" /\ attempt = 2 /\ mismatches = 1 /\ success

====
